---- MODULE Spec2Model ----
(***************************************************************************)
(* Model of skill/scripts/auto_booking.py: one run of main() -- the login  *)
(* retry loop, the CSRF fetch, the per-date slot search, the booking       *)
(* submission and the outcome classification of book_rooms().              *)
(*                                                                         *)
(* A string given to --time is held in split form: the sequence of its     *)
(* comma-separated entries, each entry the sequence of its dash-separated  *)
(* parts ("19:00-21:00,bad" is << <<"19:00","21:00">>, <<"bad">> >>).      *)
(* The portal and the captcha solver are the environment: every reply is   *)
(* an input chosen with \E from a small set.                               *)
(***************************************************************************)
EXTENDS Integers, Sequences, FiniteSets, TLC

\* ---------------------------------------------------------------- bounds
MaxButtons == 2      \* buttons in the table of one availability reply

\* ------------------------------------------------------------- constants
DEFAULT_WEEKDAY_TIMES ==
    << <<"19:00", "21:00">>, <<"17:00", "19:00">>, <<"15:00", "17:00">> >>
DEFAULT_WEEKEND_TIMES ==
    << <<"15:00", "17:00">>, <<"13:00", "15:00">>, <<"11:00", "13:00">> >>

\* range(1, 4) of the login loop: attempts 1, 2, 3
LoginRangeStop_m == 4 + 1
LoginRangeStop == 4

\* is_weekend = bd.weekday() >= 5
WeekendFrom_m == 5 + 1
WeekendFrom == 5

\* ---------------------------------------------------------------- helpers
SeqsUpTo(S, n) == UNION {[1..k -> S] : k \in 0..n}

NoSlot == <<>>          \* target_start=None, target_end=None
EmptyStr == << <<"">> >>      \* "".split(",") is [""]

\* strings a user may give to --time
TimeStrings ==
    { EmptyStr,                                          \* ""
      << <<"19:00", "21:00">>, <<"17:00", "19:00">> >>,  \* "19:00-21:00,17:00-19:00"
      << <<"15:00", "17:00">>, <<"17:00", "19:00">> >>,  \* "15:00-17:00,17:00-19:00"
      << <<"17:00", "19:00">>, <<"1700">> >>,            \* "17:00-19:00,1700"
      << <<"17:00">>, <<"19", "00", "21">> >> }          \* "17:00,19-00-21"

\* --time absent, or one of the strings
TimeArgs ==
    { [given |-> FALSE, str |-> EmptyStr] }
    \cup { [given |-> TRUE, str |-> s] : s \in TimeStrings }

\* --date absent, malformed (and not empty), or a valid date, kept as its
\* weekday(): 2025-06-13 is a Friday (4), 2025-06-14 a Saturday (5)
ExplicitWeekdays == { 4, 5 }
\* weekday() of "two days from now": a Friday, a Saturday, a Sunday
AutoWeekdays == { 4, 5, 6 }
DateArgs ==
    { [given |-> FALSE, valid |-> FALSE, wd |-> 0],
      [given |-> TRUE,  valid |-> FALSE, wd |-> 0] }
    \cup { [given |-> TRUE, valid |-> TRUE, wd |-> w] : w \in ExplicitWeekdays }

\* slots a button of the portal may carry: one of the user's entries and of
\* the weekday default, one of both defaults
ButtonSlots ==
    { <<"17:00", "19:00">>, <<"15:00", "17:00">> }

\* two rooms of the group category
RoomIds == { "E231", "W241" }

Buttons ==
    [ room_id : RoomIds, slot : ButtonSlots, disabled : BOOLEAN ]

\* data-booking-date of the buttons of a reply: the date the query asked
\* for, or another one
ReplyDates == { "bookingDate", "anotherDate" }

\* an availability reply: a transport error or bad status, a fragment
\* without the table, or the buttons of the table in document order, all
\* carrying the same date
RoomReplies ==
    { [kind |-> "error", btns |-> <<>>, date |-> "bookingDate"],
      [kind |-> "noTable", btns |-> <<>>, date |-> "bookingDate"] }
    \cup { [kind |-> "table", btns |-> b, date |-> d] :
              b \in SeqsUpTo(Buttons, MaxButtons), d \in ReplyDates }

\* reply to a booking submission: JSON with code 200, JSON with another code,
\* a non-2xx status, a transport exception
BookReplies == { "code200", "codeOther", "httpError", "exception" }

NoToken == ""            \* None or an empty attribute: both are falsy
\* reply to the CSRF page fetch: a transport error, or a page whose meta tag
\* and input field are each absent, present with an empty value, or present
\* with a token
CsrfReplies ==
    { [error |-> TRUE, meta |-> "absent", inp |-> "absent"] }
    \cup { [error |-> FALSE, meta |-> m, inp |-> n] :
              m \in {"absent", NoToken, "tok"}, n \in {"absent", NoToken, "tok"} }

Markers == { "logout", "dashboard", "captcha", "password", "incorrect" }
\* words the body of the reply to the credential POST may hold, in the case
\* the portal writes them
BodyWords == { "Logout", "dashboard", "CAPTCHA", "Password", "incorrect" }
LoginReplies ==
    [ landing : {"error", "noCaptcha", "ok"},
      captcha : {"error", "ok"},
      solver  : {"exception", "empty", "text"},
      postErr : BOOLEAN,
      body    : SUBSET BodyWords ]


\* ---------------------------------------------------------- pure functions
\* parse_time_slots: keep the entries with exactly two parts, as (start, end)
parse_time_slots(time_str) ==
    LET good == SelectSeq(time_str, LAMBDA parts : Len(parts) = 2)
    IN  [k \in 1..Len(good) |-> <<good[k][1], good[k][2]>>]

\* ",".join(times): the string whose comma-split is times ("" for no entry)
CommaJoin(times) == IF times = <<>> THEN EmptyStr ELSE times

\* truthiness of an optional command-line string
Truthy(arg) == arg.given /\ arg.str # EmptyStr

\* the reply holds a button that is not disabled
Selectable(reply) ==
    reply.kind = "table" /\ \E k \in 1..Len(reply.btns) : ~reply.btns[k].disabled

RoomInfo(btn, date) ==
    [room_id |-> btn.room_id, start_time |-> btn.slot[1], end_time |-> btn.slot[2],
     date |-> date]

\* get_available_rooms: the enabled buttons of the table, filtered to the
\* target slot when one is given; [] on an error or a missing table
get_available_rooms_d(reply, target) ==
    IF reply.kind # "table" THEN <<>>
    ELSE LET keep == SelectSeq(reply.btns, LAMBDA b :
                        \/ target = NoSlot
                        \/ (b.slot[1] = target[1] /\ b.slot[2] = target[2]))
         IN  [k \in 1..Len(keep) |-> RoomInfo(keep[k], reply.date)]
get_available_rooms_s(reply, target) ==
    IF reply.kind # "table" THEN <<>>
    ELSE LET keep == SelectSeq(reply.btns, LAMBDA b :
                        /\ ~b.disabled
                        /\ (target = NoSlot \/ b.slot[1] = target[1]))
         IN  [k \in 1..Len(keep) |-> RoomInfo(keep[k], reply.date)]
get_available_rooms(reply, target) ==
    IF reply.kind # "table" THEN <<>>
    ELSE LET keep == SelectSeq(reply.btns, LAMBDA b :
                        /\ ~b.disabled
                        /\ \/ target = NoSlot
                           \/ (b.slot[1] = target[1] /\ b.slot[2] = target[2]))
         IN  [k \in 1..Len(keep) |-> RoomInfo(keep[k], reply.date)]

\* book_room: True only for a 2xx reply whose JSON carries code 200
book_room_m(reply) == reply \in {"code200", "codeOther"}
book_room(reply) == reply = "code200"

\* extract_csrf_token: the meta tag wins over the input field
extract_csrf_token(reply) ==
    IF reply.error THEN NoToken
    ELSE IF reply.meta # "absent" THEN reply.meta
    ELSE IF reply.inp # "absent" THEN reply.inp
    ELSE NoToken

\* str.lower() on the words of a body
LowerWord(w) ==
    CASE w = "Logout"   -> "logout"
      [] w = "CAPTCHA"  -> "captcha"
      [] w = "Password" -> "password"
      [] OTHER          -> w
Lower_m(text) == text
Lower(text) == { LowerWord(w) : w \in text }

\* if not captcha_text: return False
HasCaptchaText_m(reply) == TRUE
HasCaptchaText(reply) == reply.solver = "text"

\* login: the requests it issues, in order, and how the attempt ends
login(reply) ==
    IF reply.landing = "error" THEN
        [ok |-> FALSE, trace |-> <<"GET /">>, outcome |-> "LoginError"]
    ELSE IF reply.landing = "noCaptcha" THEN
        [ok |-> FALSE, trace |-> <<"GET /">>, outcome |-> "CaptchaNotFound"]
    ELSE IF reply.captcha = "error" THEN
        [ok |-> FALSE, trace |-> <<"GET /", "GET captcha">>, outcome |-> "LoginError"]
    ELSE IF ~HasCaptchaText(reply) THEN
        [ok |-> FALSE, trace |-> <<"GET /", "GET captcha", "solve">>,
         outcome |-> "CaptchaRecognitionFailed"]
    ELSE LET t == <<"GET /", "GET captcha", "solve", "POST /authenticate">> IN
        IF reply.postErr THEN [ok |-> FALSE, trace |-> t, outcome |-> "LoginError"]
        ELSE IF "logout" \in Lower(reply.body) \/ "dashboard" \in Lower(reply.body) THEN
            [ok |-> TRUE, trace |-> t, outcome |-> "Success"]
        ELSE IF "captcha" \in Lower(reply.body) /\ "incorrect" \in Lower(reply.body) THEN
            [ok |-> FALSE, trace |-> t, outcome |-> "WrongCaptcha"]
        ELSE IF "password" \in Lower(reply.body) /\ "incorrect" \in Lower(reply.body) THEN
            [ok |-> FALSE, trace |-> t, outcome |-> "WrongCredentials"]
        ELSE [ok |-> FALSE, trace |-> t, outcome |-> "UnknownLoginFailure"]

\* -------------------------------------------------------------------- state
VARIABLES
    pc,            \* position in main(): start, login, csrf, date, search,
                   \* book, classify, end, done
    args,          \* the parsed command line and whether the credentials exist
    time_prefs,    \* main's resolved preference: None or a list of slots
    any_time_mode, \* main's flag for the manual-date mode
    attempt,       \* loop variable of the login loop
    loginCalls,    \* calls of login() made so far
    loggedIn,      \* a login() call returned True
    loginTrace,    \* requests issued by the most recent login() call
    loginOutcome,  \* how the most recent login() call ended
    csrf_token,    \* book_rooms: the token of this pass
    csrfFetches,   \* calls of extract_csrf_token() made so far
    bd,            \* book_rooms: weekday() of the date being processed
    slots_to_try,  \* book_rooms: the slot list of the date
    idx,           \* position of the search loop in slots_to_try
    rooms,         \* result of the latest query of the search
    booked,        \* book_rooms: result of book_room for the date
    recheck,       \* truthiness of the results of the re-queries made so far
    queries,       \* availability queries issued, in order
    submissions,   \* booking submissions issued, in order
    results,       \* book_rooms: the outcome recorded per date
    ret,           \* return value of book_rooms: none, True, False
    exitCode,      \* exit status of the process: none, 0, 1
    sawSelectable, \* some availability reply so far held an enabled button
    fnCall,        \* the arguments of a function applied on its own
    fnResult       \* what that function returned

vars == << pc, args, time_prefs, any_time_mode, attempt, loginCalls, loggedIn,
           loginTrace, loginOutcome, csrf_token, csrfFetches, bd, slots_to_try,
           idx, rooms, booked, recheck, queries, submissions, results, ret,
           exitCode, sawSelectable, fnCall, fnResult >>

fnVars == << fnCall, fnResult >>
NoCall == [op |-> "none"]

None == [none |-> TRUE, list |-> <<>>]
Some(list) == [none |-> FALSE, list |-> list]

\* the locals of main and book_rooms before main has run
Fresh ==
    /\ time_prefs = None
    /\ any_time_mode = FALSE
    /\ attempt = 1
    /\ loginCalls = 0
    /\ loggedIn = FALSE
    /\ loginTrace = <<>>
    /\ loginOutcome = "none"
    /\ csrf_token = NoToken
    /\ csrfFetches = 0
    /\ bd = 0
    /\ slots_to_try = <<>>
    /\ idx = 1
    /\ rooms = <<>>
    /\ booked = FALSE
    /\ recheck = <<>>
    /\ queries = <<>>
    /\ submissions = <<>>
    /\ results = <<>>
    /\ ret = "none"
    /\ exitCode = "none"
    /\ sawSelectable = FALSE

Init ==
    /\ pc = "start"
    /\ args \in [ setup : BOOLEAN, creds : BOOLEAN, time : TimeArgs, date : DateArgs ]
    /\ Fresh
    /\ fnCall = NoCall
    /\ fnResult = <<>>

\* ------------------------------------------------------------------ actions
\* main, up to the login loop: --setup, check_credentials, the resolution of
\* the time preference
ResolveTimePrefs(a) ==
    IF Truthy(a.time) THEN [prefs |-> Some(parse_time_slots(a.time.str)), any |-> FALSE]
    ELSE IF a.date.given THEN [prefs |-> Some(<<>>), any |-> TRUE]
    ELSE [prefs |-> None, any |-> FALSE]

Start ==
    /\ pc = "start"
    /\ IF args.setup
          THEN \* run_setup always exits: 1 on an empty answer, 0 once saved
               /\ \E code \in {"0", "1"} : exitCode' = code
               /\ pc' = "done"
               /\ UNCHANGED << time_prefs, any_time_mode >>
       ELSE IF ~args.creds
          THEN /\ exitCode' = "1"
               /\ pc' = "done"
               /\ UNCHANGED << time_prefs, any_time_mode >>
       ELSE /\ time_prefs' = ResolveTimePrefs(args).prefs
            /\ any_time_mode' = ResolveTimePrefs(args).any
            /\ pc' = "login"
            /\ UNCHANGED exitCode
    /\ UNCHANGED << args, attempt, loginCalls, loggedIn, loginTrace, loginOutcome,
                    csrf_token, csrfFetches, bd, slots_to_try, idx, rooms, booked,
                    recheck, queries, submissions, results, ret >>
    /\ UNCHANGED << sawSelectable, fnCall, fnResult >>

\* where main goes when login() returned True: break, then book_rooms
AfterLoginOk_m == IF loginCalls < 2 THEN "login" ELSE "csrf"
AfterLoginOk == "csrf"

\* one iteration of the login loop: a login() call, then break, retry or
\* the loop's else branch (sys.exit(1))
LoginAttempt ==
    /\ pc = "login"
    /\ \E reply \in LoginReplies :
          LET r == login(reply) IN
          /\ loginCalls' = loginCalls + 1
          /\ loginTrace' = r.trace
          /\ loginOutcome' = r.outcome
          /\ loggedIn' = r.ok
          /\ IF r.ok
                THEN /\ pc' = AfterLoginOk
                     /\ UNCHANGED << attempt, exitCode >>
             ELSE IF attempt + 1 < LoginRangeStop
                THEN /\ attempt' = attempt + 1
                     /\ UNCHANGED << pc, exitCode >>
             ELSE /\ pc' = "done"
                  /\ exitCode' = "1"
                  /\ UNCHANGED attempt
    /\ UNCHANGED << args, time_prefs, any_time_mode, csrf_token, csrfFetches, bd,
                    slots_to_try, idx, rooms, booked, recheck, queries,
                    submissions, results, ret >>
    /\ UNCHANGED << sawSelectable, fnCall, fnResult >>

\* if not csrf_token: return False
HasToken_m(token) == TRUE
HasToken(token) == token # NoToken

\* book_rooms: the CSRF fetch and its early return
ExtractCsrf ==
    /\ pc = "csrf"
    /\ \E reply \in CsrfReplies :
          /\ csrf_token' = extract_csrf_token(reply)
          /\ csrfFetches' = csrfFetches + 1
          /\ IF ~HasToken(csrf_token')
                THEN ret' = "False" /\ pc' = "end"
                ELSE ret' = ret /\ pc' = "date"
    /\ UNCHANGED << args, time_prefs, any_time_mode, attempt, loginCalls, loggedIn,
                    loginTrace, loginOutcome, bd, slots_to_try, idx, rooms, booked,
                    recheck, queries, submissions, results, exitCode >>
    /\ UNCHANGED << sawSelectable, fnCall, fnResult >>

\* the slot list of a date: the caller's list, else the day-type default
SlotsFor_m(prefs, weekday) ==
    IF weekday >= WeekendFrom
        THEN parse_time_slots(CommaJoin(DEFAULT_WEEKEND_TIMES))
    ELSE IF ~prefs.none THEN prefs.list
    ELSE parse_time_slots(CommaJoin(DEFAULT_WEEKDAY_TIMES))
SlotsFor(prefs, weekday) ==
    IF ~prefs.none THEN prefs.list
    ELSE IF weekday >= WeekendFrom
        THEN parse_time_slots(CommaJoin(DEFAULT_WEEKEND_TIMES))
        ELSE parse_time_slots(CommaJoin(DEFAULT_WEEKDAY_TIMES))

\* book_rooms: the date to process (the given one, or two days from now) and
\* the start of its loop iteration
ResolveDate ==
    /\ pc = "date"
    /\ IF args.date.given /\ ~args.date.valid
          THEN /\ ret' = "False"
               /\ pc' = "end"
               /\ UNCHANGED << bd, slots_to_try >>
          ELSE /\ \E weekday \in AutoWeekdays \cup ExplicitWeekdays :
                     /\ args.date.given => weekday = args.date.wd
                     /\ bd' = weekday
                     /\ slots_to_try' = SlotsFor(time_prefs, weekday)
               /\ pc' = "search"
               /\ UNCHANGED ret
    /\ idx' = 1
    /\ booked' = FALSE
    /\ UNCHANGED << args, time_prefs, any_time_mode, attempt, loginCalls, loggedIn,
                    loginTrace, loginOutcome, csrf_token, csrfFetches, rooms,
                    recheck, queries, submissions, results, exitCode >>
    /\ UNCHANGED << sawSelectable, fnCall, fnResult >>

\* the record of one availability query: its target slot and the position
\* of that slot in slots_to_try (0 for an unfiltered query), whether it
\* returned a room, the token it carried, and whether the search or the
\* status expression issued it
Query(target, pos, found, phase) ==
    [target |-> target, pos |-> pos, found |-> found, phase |-> phase,
     token |-> csrf_token]

\* the target slots a query can carry: none, or a slot of a list book_rooms
\* can be searching
Targets ==
    { NoSlot }
    \cup UNION { { SlotsFor(Some(parse_time_slots(str)), wd)[k] :
                     k \in 1..Len(SlotsFor(Some(parse_time_slots(str)), wd)) } :
                        str \in TimeStrings, wd \in AutoWeekdays }
    \cup UNION { { SlotsFor(None, wd)[k] : k \in 1..Len(SlotsFor(None, wd)) } :
                        wd \in AutoWeekdays }

AnswersFor ==
    [ target \in Targets |->
        { [found |-> get_available_rooms(reply, target),
           selectable |-> Selectable(reply)] : reply \in RoomReplies } ]

RechecksFor ==
    [ target \in Targets |->
        { [found |-> IF a.found = <<>> THEN <<>> ELSE << a.found[1] >>,
           selectable |-> a.selectable] : a \in AnswersFor[target] } ]

\* what a query for target may return, over every reply of the portal: the
\* rooms found, and whether the reply held an enabled button at all
Answers(target) == AnswersFor[target]

\* the same for a query of the status expression, which only looks at the
\* truthiness of the result
Rechecks(target) == RechecksFor[target]

\* the search: one unfiltered query in any-time mode, else the query of the
\* next slot of the list; a non-empty result ends the search
SearchQuery ==
    /\ pc = "search"
    /\ LET any_time == (slots_to_try = <<>>)
           target   == IF any_time THEN NoSlot ELSE slots_to_try[idx]
       IN  \E answer \in Answers(target) :
          LET found == answer.found
          IN  /\ rooms' = found
              /\ sawSelectable' = (sawSelectable \/ answer.selectable)
              /\ queries' = Append(queries,
                     Query(target, IF any_time THEN 0 ELSE idx, found # <<>>, "search"))
              /\ IF found # <<>>
                    THEN pc' = "book" /\ idx' = idx
                 ELSE IF ~any_time /\ idx < Len(slots_to_try)
                    THEN pc' = pc /\ idx' = idx + 1
                 ELSE pc' = "classify" /\ idx' = idx
    /\ UNCHANGED << args, time_prefs, any_time_mode, attempt, loginCalls, loggedIn,
                    loginTrace, loginOutcome, csrf_token, csrfFetches, bd,
                    slots_to_try, booked, recheck, submissions, results, ret,
                    exitCode >>
    /\ UNCHANGED << fnCall, fnResult >>

\* rooms[0]
FirstRoom_m(found) == found[Len(found)]
FirstRoom(found) == found[1]

\* the form fields of the POST to /space-booking/book-library-room
BookingData_m(room_info, token) ==
    [_token |-> token, bookingRoomId |-> room_info.room_id,
     bookingDate |-> "bookingDate", bookingStartTime |-> room_info.start_time,
     bookingEndTime |-> room_info.end_time]
BookingData(room_info, token) ==
    [_token |-> token, bookingRoomId |-> room_info.room_id,
     bookingDate |-> room_info.date, bookingStartTime |-> room_info.start_time,
     bookingEndTime |-> room_info.end_time]

\* the booking submission of the first room of the result
BookRoom ==
    /\ pc = "book"
    /\ \E reply \in BookReplies :
          /\ booked' = book_room(reply)
          /\ submissions' = Append(submissions,
                 [room |-> FirstRoom(rooms), token |-> csrf_token, reply |-> reply,
                  data |-> BookingData(FirstRoom(rooms), csrf_token)])
    /\ pc' = "classify"
    /\ UNCHANGED << args, time_prefs, any_time_mode, attempt, loginCalls, loggedIn,
                    loginTrace, loginOutcome, csrf_token, csrfFetches, bd,
                    slots_to_try, idx, rooms, recheck, queries, results, ret,
                    exitCode >>
    /\ UNCHANGED << sawSelectable, fnCall, fnResult >>

\* (slots_to_try or []): the slots the status expression queries again
RecheckSlots_m(slots) == IF slots = <<>> THEN << NoSlot >> ELSE slots
RecheckSlots_twice(slots) == slots \o slots
RecheckSlots(slots) == slots

\* the status expression, when booked is False: one more query per slot of
\* slots_to_try, all of them issued before any() looks at the results
ClassifyQuery ==
    /\ pc = "classify"
    /\ ~booked
    /\ Len(recheck) < Len(RecheckSlots(slots_to_try))
    /\ LET pos    == Len(recheck) + 1
           target == RecheckSlots(slots_to_try)[pos]
       IN  \E answer \in Rechecks(target) :
          LET found == answer.found
          IN  /\ recheck' = Append(recheck, found # <<>>)
              /\ sawSelectable' = (sawSelectable \/ answer.selectable)
              /\ queries' = Append(queries,
                     Query(target, IF target = NoSlot THEN 0 ELSE pos,
                           found # <<>>, "classify"))
    /\ UNCHANGED << pc, args, time_prefs, any_time_mode, attempt, loginCalls,
                    loggedIn, loginTrace, loginOutcome, csrf_token, csrfFetches,
                    bd, slots_to_try, idx, rooms, booked, submissions, results,
                    ret, exitCode >>
    /\ UNCHANGED << fnCall, fnResult >>

Status(isBooked, requeried) ==
    IF isBooked THEN "success"
    ELSE IF \E k \in 1..Len(requeried) : requeried[k] THEN "failed"
    ELSE "no_rooms"

\* the return statement after the summary
BookRoomsReturn_m(outcomes) ==
    IF \E k \in 1..Len(outcomes) : outcomes[k] = "success" THEN "True" ELSE "False"
BookRoomsReturn(outcomes) == "True"

\* results.append(...), the end of the loop, the summary and return True
RecordResult ==
    /\ pc = "classify"
    /\ booked \/ Len(recheck) = Len(RecheckSlots(slots_to_try))
    /\ results' = Append(results, Status(booked, recheck))
    /\ ret' = BookRoomsReturn(results')
    /\ pc' = "end"
    /\ UNCHANGED << args, time_prefs, any_time_mode, attempt, loginCalls, loggedIn,
                    loginTrace, loginOutcome, csrf_token, csrfFetches, bd,
                    slots_to_try, idx, rooms, booked, recheck, queries,
                    submissions, exitCode >>
    /\ UNCHANGED << sawSelectable, fnCall, fnResult >>

\* the exit status once main runs off its end
ExitAfterBooking_m(returned) == IF returned = "True" THEN "0" ELSE "1"
ExitAfterBooking(returned) == "0"

\* main after book_rooms: its return value is dropped, the process ends
Finish ==
    /\ pc = "end"
    /\ pc' = "done"
    /\ exitCode' = ExitAfterBooking(ret)
    /\ UNCHANGED << args, time_prefs, any_time_mode, attempt, loginCalls, loggedIn,
                    loginTrace, loginOutcome, csrf_token, csrfFetches, bd,
                    slots_to_try, idx, rooms, booked, recheck, queries,
                    submissions, results, ret >>
    /\ UNCHANGED << sawSelectable, fnCall, fnResult >>

Next ==
    \/ Start
    \/ LoginAttempt
    \/ ExtractCsrf
    \/ ResolveDate
    \/ SearchQuery
    \/ BookRoom
    \/ ClassifyQuery
    \/ RecordResult
    \/ Finish

Spec == Init /\ [][Next]_vars

FairSpec == Spec /\ WF_vars(Next)

\* ------------------------------------------- functions applied on their own
\* everything but pc and the function variables
mainData == << args, time_prefs, any_time_mode, attempt, loginCalls, loggedIn,
               loginTrace, loginOutcome, csrf_token, csrfFetches, bd,
               slots_to_try, idx, rooms, booked, recheck, queries, submissions,
               results, ret, exitCode, sawSelectable >>

NoArgs ==
    [ setup |-> FALSE, creds |-> TRUE,
      time |-> [given |-> FALSE, str |-> EmptyStr],
      date |-> [given |-> FALSE, valid |-> FALSE, wd |-> 0] ]

\* login() applied to every combination of replies
LoginInit ==
    /\ pc = "fn"
    /\ args = NoArgs
    /\ Fresh
    /\ fnCall \in { [op |-> "login", reply |-> r] : r \in LoginReplies }
    /\ fnResult = <<>>

ApplyLogin ==
    /\ pc = "fn"
    /\ fnCall.op = "login"
    /\ fnResult' = login(fnCall.reply)
    /\ pc' = "fnDone"
    /\ UNCHANGED << mainData, fnCall >>

LoginSpec == LoginInit /\ [][ApplyLogin]_vars

\* ROOM_TABLE_IDS
ROOM_TABLE_IDS ==
    [ silent  |-> "silent_study_room_table",
      study   |-> "study_room_table",
      group   |-> "group_discussion_room_table",
      success |-> "student_success_room_table" ]
RoomTypes == { "silent", "study", "group", "success" }

\* buttons of the group table: two rooms, a slot, a slot with the same start
\* and another end, a slot with the same end and another start
GroupButtons ==
    [ room_id : RoomIds,
      slot : { <<"17:00", "19:00">>, <<"17:00", "21:00">>, <<"15:00", "19:00">> },
      disabled : BOOLEAN ]
\* the one button the study table may hold
StudyButton == [ room_id |-> "S221", slot |-> <<"17:00", "19:00">>, disabled |-> FALSE ]

\* the tables of a fragment, by table id
Tables(hasGroup, group, hasStudy) ==
    [ id \in (IF hasGroup THEN {"group_discussion_room_table"} ELSE {})
              \cup (IF hasStudy THEN {"study_room_table"} ELSE {}) |->
        IF id = "group_discussion_room_table" THEN group ELSE << StudyButton >> ]

\* the fragments the portal may return: the group table absent or with up
\* to MaxButtons buttons, the study table absent or with its button
Documents ==
    { [error |-> TRUE, tables |-> Tables(FALSE, <<>>, FALSE)] }
    \cup { [error |-> FALSE, tables |-> Tables(TRUE, g, st)] :
              g \in SeqsUpTo(GroupButtons, MaxButtons), st \in BOOLEAN }
    \cup { [error |-> FALSE, tables |-> Tables(FALSE, <<>>, st)] : st \in BOOLEAN }

\* soup.find("table", {"id": table_id}) on the fragment of a reply
FindTable(doc, room_type) ==
    IF doc.error THEN [kind |-> "error", btns |-> <<>>, date |-> "bookingDate"]
    ELSE IF ROOM_TABLE_IDS[room_type] \notin DOMAIN doc.tables
        THEN [kind |-> "noTable", btns |-> <<>>, date |-> "bookingDate"]
    ELSE [kind |-> "table", btns |-> doc.tables[ROOM_TABLE_IDS[room_type]],
          date |-> "bookingDate"]

\* get_available_rooms applied to fragments, room types and targets
RoomsInit ==
    /\ pc = "fn"
    /\ args = NoArgs
    /\ Fresh
    /\ fnCall \in { [op |-> "get_available_rooms", doc |-> d, room_type |-> t,
                      target |-> g] :
                        d \in Documents, t \in RoomTypes,
                        g \in { NoSlot, <<"17:00", "19:00">> } }
    /\ fnResult = <<>>

ApplyRooms ==
    /\ pc = "fn"
    /\ fnCall.op = "get_available_rooms"
    /\ fnResult' = get_available_rooms(FindTable(fnCall.doc, fnCall.room_type),
                                       fnCall.target)
    /\ pc' = "fnDone"
    /\ UNCHANGED << mainData, fnCall >>

RoomsSpec == RoomsInit /\ [][ApplyRooms]_vars

\* ------------------------------------------------------------- properties
Searching == pc \in {"search", "book", "classify"}
PassDone  == ret = "True"
InPass    == Searching \/ PassDone
Outcomes  == {"success", "no_rooms", "failed"}

\* C1: login() is called at most 3 times in a run, and when the third call
\* has failed too the process has exited with status 1 without a CSRF
\* fetch, an availability query or a booking submission.
Thm_C1 ==
    /\ loginCalls <= 3
    /\ (loginCalls = 3 /\ ~loggedIn) =>
          /\ pc = "done"
          /\ exitCode = "1"
          /\ csrfFetches = 0
          /\ queries = <<>>
          /\ submissions = <<>>
    /\ ~loggedIn => (csrfFetches = 0 /\ queries = <<>> /\ submissions = <<>>)

Wit_C1 == loginCalls = 3 /\ ~loggedIn /\ exitCode = "1" /\ loginOutcome = "WrongCredentials"

\* C2: a run makes at most one booking submission for its date, whatever
\* the portal answers, and the room submitted is the first room of the
\* result of the query that ended the search.
Thm_C2 ==
    /\ Len(submissions) <= 1
    /\ submissions # <<>> =>
          /\ rooms # <<>>
          /\ submissions[1].room = rooms[1]
          /\ \E k \in 1..Len(queries) :
                /\ queries[k].phase = "search"
                /\ queries[k].found
                /\ \A n \in 1..Len(queries) : queries[n].phase = "search" => n <= k

Wit_C2 ==
    /\ pc = "done"
    /\ Len(submissions) = 1
    /\ submissions[1].reply # "code200"
    /\ Len(rooms) = 2
    /\ rooms[1] # rooms[2]
    /\ \E k \in 1..Len(queries) : queries[k].phase = "classify" /\ queries[k].found

\* C3: with a non-empty preference list the queries of a date are issued in
\* list order, and once a query has returned a room no query for a later
\* slot of the list is issued, whether the booking then succeeds or fails.
Claim_C3 ==
    slots_to_try # <<>> =>
        /\ \A a, b \in 1..Len(queries) :
              (a < b /\ queries[a].found) => queries[b].pos <= queries[a].pos
        /\ \A k \in 1..Len(queries) :
              queries[k].phase = "search" => queries[k].pos = k

\* C4: in any-slot mode (empty slot list) the pass issues exactly one
\* availability query, that query has no time filter, and a booking is
\* submitted only for the first room it returned, none when it returned none.
Thm_C4 ==
    (slots_to_try = <<>> /\ InPass) =>
        /\ Len(queries) <= 1
        /\ pc # "search" => Len(queries) = 1
        /\ \A k \in 1..Len(queries) : queries[k].target = NoSlot
        /\ Len(submissions) <= 1
        /\ submissions # <<>> => (rooms # <<>> /\ submissions[1].room = rooms[1])
        /\ PassDone => (submissions # <<>> <=> queries[1].found)

Wit_C4 ==
    /\ slots_to_try = <<>>
    /\ pc = "done"
    /\ PassDone
    /\ Len(queries) = 1
    /\ Len(rooms) = 2
    /\ Len(submissions) = 1
    /\ submissions[1].reply = "codeOther"

\* C5: whenever a booking submission was made and failed, the outcome
\* recorded for the date is failed, in list mode and in any-slot mode,
\* whatever the portal answers afterwards.
Claim_C5 ==
    (PassDone /\ submissions # <<>> /\ submissions[1].reply # "code200") =>
        results[1] = "failed"

\* C6: when every query of the search returned no room (so nothing was
\* submitted), the outcome recorded for the date is no_rooms, never failed.
Claim_C6 ==
    (PassDone /\ slots_to_try # <<>> /\ submissions = <<>>) =>
        results[1] = "no_rooms"

WeekendList ==
    << <<"15:00", "17:00">>, <<"13:00", "15:00">>, <<"11:00", "13:00">> >>
WeekdayList ==
    << <<"19:00", "21:00">>, <<"17:00", "19:00">>, <<"15:00", "17:00">> >>
DayList(weekday) == IF weekday \in {5, 6} THEN WeekendList ELSE WeekdayList

\* the queries so far follow the list: each targets the slot at its
\* position, and the queries of the search take the positions 1, 2, ...
FollowsList(list) ==
    \A k \in 1..Len(queries) :
        /\ queries[k].pos \in 1..Len(list)
        /\ queries[k].target = list[queries[k].pos]
        /\ queries[k].phase = "search" => queries[k].pos = k

Claim_C8 ==
    ret # "none" =>
        /\ ret = "True"
        /\ Len(results) = 1
        /\ results[1] \in Outcomes

DateOk == ~args.date.given \/ args.date.valid

\* C8 amended: a call of book_rooms that obtained a CSRF token and whose
\* target date, when given, is well formed ends with exactly one outcome of
\* {success, no_rooms, failed} recorded and returns True; a call whose CSRF
\* fetch gave no token or whose date is malformed returns False with no
\* outcome recorded.  Every call returns.
Thm_C8 ==
    /\ [] ( ret # "none" =>
              IF csrf_token # NoToken /\ DateOk
                  THEN ret = "True" /\ Len(results) = 1 /\ results[1] \in Outcomes
                  ELSE ret = "False" /\ results = <<>> )
    /\ [] ( ret = "none" => results = <<>> )
    /\ (pc = "csrf") ~> (ret # "none")

Wit_C8 ==
    /\ ret = "True"
    /\ Len(results) = 1
    /\ results[1] = "failed"
    /\ pc = "done"

\* C9: with the credentials present and run mode selected, the process ends
\* with a non-zero status exactly when all 3 login attempts failed; after a
\* successful login it ends with status 0 whatever book_rooms did.
Thm_C9 ==
    (pc = "done" /\ ~args.setup /\ args.creds) =>
        /\ exitCode \in {"0", "1"}
        /\ exitCode = "1" <=> (loginCalls = 3 /\ ~loggedIn)
        /\ loggedIn => exitCode = "0"

Wit_C9 ==
    /\ pc = "done"
    /\ ~args.setup
    /\ args.creds
    /\ loggedIn
    /\ ret = "False"
    /\ exitCode = "0"

\* C10: the outcome recorded for the date is success exactly when a booking
\* submission was made and its reply carried code 200.
Thm_C10 ==
    PassDone =>
        ( results[1] = "success"
            <=> (submissions # <<>> /\ submissions[1].reply = "code200") )

Wit_C10 ==
    /\ PassDone
    /\ results[1] = "success"
    /\ Len(submissions) = 1
    /\ submissions[1].reply = "code200"

\* C11: when no availability reply received for the date held a button that
\* is not disabled (all disabled, table missing, fetch error), no booking
\* submission is made and the outcome recorded is no_rooms.
Thm_C11 ==
    ~sawSelectable =>
        /\ submissions = <<>>
        /\ \A k \in 1..Len(queries) : ~queries[k].found
        /\ PassDone => results[1] = "no_rooms"

Wit_C11 ==
    /\ PassDone
    /\ ~sawSelectable
    /\ slots_to_try # <<>>
    /\ Len(queries) = 2 * Len(slots_to_try)
    /\ results[1] = "no_rooms"

Thm_C13 ==
    /\ csrfFetches <= 1
    /\ pc \in {"date", "search", "book", "classify"} => csrfFetches = 1
    /\ ret # "none" => csrfFetches = 1
    /\ (queries # <<>> \/ submissions # <<>>) =>
          (csrfFetches = 1 /\ csrf_token # NoToken)
    /\ \A k \in 1..Len(queries) : queries[k].token = csrf_token
    /\ \A k \in 1..Len(submissions) :
          submissions[k].token = csrf_token /\ submissions[k].data._token = csrf_token
    /\ (csrfFetches = 1 /\ csrf_token = NoToken) =>
          (queries = <<>> /\ submissions = <<>> /\ ret = "False")

Wit_C13 ==
    /\ PassDone
    /\ csrfFetches = 1
    /\ Len(queries) >= 3
    /\ Len(submissions) = 1
    /\ submissions[1].token = "tok"

FullTrace == << "GET /", "GET captcha", "solve", "POST /authenticate" >>
Posted(trace) == \E k \in 1..Len(trace) : trace[k] = "POST /authenticate"

\* C14: one login attempt runs landing-page fetch, captcha-image fetch,
\* captcha solving, credential POST in that order; the POST is issued only
\* when the landing page was fetched, the captcha image found and fetched
\* and the solver returned non-empty text; a failure at an earlier step ends
\* the attempt as a failure with no POST.
Thm_C14 ==
    pc = "fnDone" =>
        LET r == fnCall.reply
            t == fnResult.trace
            ready == r.landing = "ok" /\ r.captcha = "ok" /\ r.solver = "text"
        IN  /\ Len(t) \in 1..4
            /\ t = SubSeq(FullTrace, 1, Len(t))
            /\ Posted(t) <=> ready
            /\ ~ready => ~fnResult.ok
            /\ r.landing # "ok" => Len(t) = 1
            /\ (r.landing = "ok" /\ r.captcha # "ok") => Len(t) = 2
            /\ (r.landing = "ok" /\ r.captcha = "ok" /\ r.solver # "text") => Len(t) = 3

Wit_C14 ==
    /\ pc = "fnDone"
    /\ fnCall.reply.landing = "ok"
    /\ fnCall.reply.captcha = "ok"
    /\ fnCall.reply.solver = "empty"
    /\ "Logout" \in fnCall.reply.body
    /\ ~fnResult.ok
    /\ ~Posted(fnResult.trace)

\* C15: in list mode a booking submission names the room id, date, start and
\* end of the first room returned by the most recent availability query, no
\* query lies between that read and the submission, and the slot submitted
\* is the first slot of the list whose query returned a room.
Thm_C15 ==
    (slots_to_try # <<>> /\ submissions # <<>>) =>
        LET d == submissions[1].data
            first == CHOOSE k \in 1..Len(queries) :
                        queries[k].found /\ \A n \in 1..(k - 1) : ~queries[n].found
        IN  /\ rooms # <<>>
            /\ d.bookingRoomId = rooms[1].room_id
            /\ d.bookingDate = rooms[1].date
            /\ d.bookingStartTime = rooms[1].start_time
            /\ d.bookingEndTime = rooms[1].end_time
            /\ \E k \in 1..Len(queries) : queries[k].found
            /\ queries[first].phase = "search"
            /\ << d.bookingStartTime, d.bookingEndTime >> = slots_to_try[first]
            /\ \A n \in 1..Len(queries) : queries[n].phase = "search" => n <= first
            /\ pc = "classify" /\ recheck = <<>> => Len(queries) = first

Wit_C15 ==
    /\ pc = "done"
    /\ args.time.str = << <<"19:00", "21:00">>, <<"17:00", "19:00">> >>
    /\ Truthy(args.time)
    /\ Len(submissions) = 1
    /\ submissions[1].data.bookingStartTime = "17:00"
    /\ submissions[1].data.bookingEndTime = "19:00"
    /\ submissions[1].data.bookingDate = "anotherDate"
    /\ Len(rooms) = 2

\* C16: a reply to the credential POST is classified by marker priority:
\* the attempt succeeds exactly when the body holds "logout" or "dashboard"
\* in any case, also when it holds "captcha" and "incorrect" or "password"
\* and "incorrect"; otherwise it fails, as wrong captcha before wrong
\* credentials, with unknown failure as the fallback.
Thm_C16 ==
    ( /\ pc = "fnDone"
      /\ fnCall.reply.landing = "ok"
      /\ fnCall.reply.captcha = "ok"
      /\ fnCall.reply.solver = "text"
      /\ ~fnCall.reply.postErr ) =>
        LET b == fnCall.reply.body
            success == "Logout" \in b \/ "dashboard" \in b
            wrongCaptcha == "CAPTCHA" \in b /\ "incorrect" \in b
            wrongCreds == "Password" \in b /\ "incorrect" \in b
        IN  /\ fnResult.ok <=> success
            /\ fnResult.outcome =
                  ( IF success THEN "Success"
                    ELSE IF wrongCaptcha THEN "WrongCaptcha"
                    ELSE IF wrongCreds THEN "WrongCredentials"
                    ELSE "UnknownLoginFailure" )

Wit_C16 ==
    /\ pc = "fnDone"
    /\ fnCall.reply.body = { "Logout", "CAPTCHA", "Password", "incorrect" }
    /\ fnCall.reply.landing = "ok"
    /\ fnCall.reply.captcha = "ok"
    /\ fnCall.reply.solver = "text"
    /\ ~fnCall.reply.postErr
    /\ fnResult.ok

\* the buttons of btns that are enabled and fit the target, from the left
RECURSIVE Fitting(_, _)
Fitting(btns, target) ==
    IF btns = <<>> THEN <<>>
    ELSE LET b == Head(btns)
             fits == /\ b.disabled = FALSE
                     /\ (target # NoSlot => b.slot = target)
         IN  (IF fits THEN << b >> ELSE <<>>) \o Fitting(Tail(btns), target)

CategoryTable(room_type) ==
    CASE room_type = "silent"  -> "silent_study_room_table"
      [] room_type = "study"   -> "study_room_table"
      [] room_type = "group"   -> "group_discussion_room_table"
      [] room_type = "success" -> "student_success_room_table"

\* C17: get_available_rooms returns, in document order, exactly the buttons
\* of the table of the room category that are not disabled and, with a
\* target slot, whose start and end both equal the target; with no target,
\* every enabled button of that table; never a button of another table.
Thm_C17 ==
    (pc = "fnDone" /\ ~fnCall.doc.error) =>
        LET id == CategoryTable(fnCall.room_type)
            btns == IF id \in DOMAIN fnCall.doc.tables
                        THEN fnCall.doc.tables[id] ELSE <<>>
            want == Fitting(btns, fnCall.target)
        IN  /\ Len(fnResult) = Len(want)
            /\ \A k \in 1..Len(want) :
                  /\ fnResult[k].room_id = want[k].room_id
                  /\ fnResult[k].start_time = want[k].slot[1]
                  /\ fnResult[k].end_time = want[k].slot[2]

Wit_C17 ==
    /\ pc = "fnDone"
    /\ fnCall.room_type = "group"
    /\ fnCall.target = <<"17:00", "19:00">>
    /\ "study_room_table" \in DOMAIN fnCall.doc.tables
    /\ "group_discussion_room_table" \in DOMAIN fnCall.doc.tables
    /\ Len(fnCall.doc.tables["group_discussion_room_table"]) = 2
    /\ fnCall.doc.tables["group_discussion_room_table"][1].slot = <<"17:00", "21:00">>
    /\ Len(fnResult) = 1
    /\ fnResult[1].room_id = "W241"

\* C18: once a login attempt has succeeded no further login() call is made
\* for the rest of the run, so no landing-page fetch and no credential POST
\* follows, whatever the portal answers to later requests.
Thm_C18 ==
    [][ loggedIn =>
          /\ loggedIn'
          /\ loginCalls' = loginCalls
          /\ loginTrace' = loginTrace
          /\ pc' # "login" ]_vars

Wit_C18 ==
    /\ loggedIn
    /\ loginCalls = 2
    /\ pc = "done"
    /\ Len(submissions) = 1
    /\ submissions[1].reply = "httpError"
    /\ \E k \in 1..Len(queries) : queries[k].phase = "classify"

\* the slots a --time string names: its entries of the form start-end
Named(str) == { << str[k][1], str[k][2] >> : k \in { n \in 1..Len(str) : Len(str[n]) = 2 } }

\* C19: with a non-empty --time string every booking submission of the run
\* is for a slot the string names, and no query is unfiltered, also when
\* every entry of the string is malformed.
Claim_C19 ==
    Truthy(args.time) =>
        /\ \A k \in 1..Len(queries) : queries[k].target # NoSlot
        /\ \A k \in 1..Len(submissions) :
              << submissions[k].data.bookingStartTime,
                 submissions[k].data.bookingEndTime >> \in Named(args.time.str)

\* C20: every run ends, at the fatal login exit or after the booking pass,
\* after at most 3 login attempts and at most twice the length of the slot
\* list plus one availability queries.
Thm_C20 ==
    /\ <>(pc = "done")
    /\ [](loginCalls <= 3)
    /\ [](Len(queries) <= 2 * Len(slots_to_try) + 1)
    /\ [](pc = "done" => exitCode \in {"0", "1"})
    /\ []((pc = "done" /\ ~args.setup /\ args.creds) =>
             (exitCode = "1" \/ ret # "none"))

Wit_C20 ==
    /\ pc = "done"
    /\ Len(slots_to_try) = 3
    /\ Len(queries) = 6
    /\ loginCalls = 3

====
